---- MODULE Spec2Model ----
(***************************************************************************)
(* The ride/driver orchestration of src/index.tsx (component App) as a     *)
(* state machine.  One step is one callback of the single event-handling   *)
(* thread: a button press, a window online/offline event, a timer tick, a  *)
(* geolocation callback or the continuation of an awaited request.  The    *)
(* state setters a callback calls are batched into one render, and the     *)
(* effects whose dependencies changed in that render (cleanup, then body)  *)
(* run as part of the same step.  Buttons can only be pressed where the    *)
(* markup renders them enabled.  vehicleType and paymentMethod only feed   *)
(* the prompt text and the markup and are left out.                        *)
(***************************************************************************)
EXTENDS Integers, Sequences, FiniteSets, TLC

(* ------------------------------ bounds -------------------------------- *)
\* requests awaiting their response at the same time: find-ride requests,
\* polling fetches and position lookups together
MaxInFlight == 2
\* largest etaMinutes a find-ride response carries
MaxEta == 1
\* chat messages accepted by handleSendChatMessage plus chunks delivered by
\* the chat streams in one run
MaxChatSteps == 3

(* ------------------------------ values -------------------------------- *)
\* JavaScript objects are records holding exactly the keys that are present.
Null == [null |-> TRUE]
EmptyObject == [k \in {} |-> 0]
Has(obj, k) == obj # Null /\ k \in DOMAIN obj
\* obj.k for a string-valued key: "undefined" when the key is absent
Get(obj, k) == IF Has(obj, k) THEN obj[k] ELSE "undefined"
\* { ...obj, k: v }
Spread(obj, k, v) == [f \in (DOMAIN obj) \cup {k} |-> IF f = k THEN v ELSE obj[f]]

\* a status or error text: which template it is and the number it embeds
Msg(kind, arg) == [kind |-> kind, arg |-> arg]
NoMsg == Msg("", <<>>)
\* obj.k interpolated into a text for a number-valued key
NumArg(obj, k) == IF Has(obj, k) THEN <<obj[k]>> ELSE <<>>

NoRide == "null"
UserModes == {"none", "passenger", "driver"}
DriverStatuses == {"offline", "online", "request_pending", "on_ride", "ride_completed"}
RideStatuses == {"searching", "found", "tracking", "completed", "canceled"}

\* what the user types into the pickup and the destination field
PickupInputs == {"Mirpur 10"}
DestinationInputs == {"Gulshan 1"}
ApproxLocation == "Approx. Dhaka University"

DefaultEta == 5
\* etaMinutes of a response: 0 makes the tracking effect fall back to DefaultEta
EtaValues == 0 .. MaxEta

(* outcomes of ai.models.generateContent: the request throws, or           *)
(* response.text is empty, is no JSON, is the JSON null, or is JSON data   *)
Outcome(kind, data) == [kind |-> kind, data |-> data]
FailureOutcomes ==
    {Outcome(k, EmptyObject) : k \in {"error", "empty", "garbage", "null"}}
FindRideData ==
    {[driverName |-> "Rahim", etaMinutes |-> e, estimatedFare |-> 250] : e \in EtaValues}
    \cup {[driverName |-> "Rahim", etaMinutes |-> 1, estimatedFare |-> 250,
           pickup |-> "Motijheel", destination |-> "Motijheel"],
          [message |-> "No drivers available nearby. Please try again."],
          EmptyObject}
\* the offer fields the ride-offer schema names, as far as the model carries them
FindRideFields == {"driverName", "etaMinutes", "estimatedFare"}
FindRideOutcomes == FailureOutcomes \cup {Outcome("object", d) : d \in FindRideData}
DriverRequestData ==
    {[passengerName |-> "Ahmed", pickup |-> "Farmgate", destination |-> "Motijheel",
      fare |-> 300],
     [passengerName |-> "Ahmed", pickup |-> "Farmgate", destination |-> "Motijheel"],
     EmptyObject}
\* the fields the incoming-request schema requires, as far as the model carries them
DriverRequestRequired == {"passengerName", "pickup", "destination", "fare"}
DriverRequestOutcomes ==
    FailureOutcomes \cup {Outcome("object", d) : d \in DriverRequestData}

(* ------------------------------- state -------------------------------- *)
VARIABLES
    userMode, currentLocation, pickupLocation, destination,
    driverStatus, currentRideOffer, passengerRideStatus,
    apiResponse, loading, error, isOnline,
    driverRequestIntervalRef, rideTrackingIntervalRef,
    pollTimers,     \* live intervals running simulateDriverActivity, with what each closed over
    trackTimers,    \* live intervals of the tracking effect, with their eta
    findReqs,       \* find-ride requests in flight, with what each closed over
    pollReqs,       \* number of polling fetches in flight
    geoReqs,        \* number of position lookups in flight
    geolocation,    \* whether navigator.geolocation exists
    isChatOpen, chatMessages, chatInput, chatRef,
    apiKey,         \* whether process.env.API_KEY is set
    chatSends,      \* chat sends awaiting their stream or consuming it
    chatSteps       \* chat messages accepted and chunks delivered so far

formVars == <<userMode, currentLocation, pickupLocation, destination>>
rideVars == <<driverStatus, currentRideOffer, passengerRideStatus>>
uiVars == <<apiResponse, loading, error, isOnline>>
pollVars == <<driverRequestIntervalRef, pollTimers>>
trackVars == <<rideTrackingIntervalRef, trackTimers>>
reqVars == <<findReqs, pollReqs, geoReqs, geolocation>>
chatVars == <<isChatOpen, chatMessages, chatInput, chatRef, apiKey, chatSends, chatSteps>>
vars == <<formVars, rideVars, uiVars, pollVars, trackVars, reqVars, chatVars>>

\* the requests in flight, which the model bounds by MaxInFlight
InFlight == Len(findReqs) + pollReqs + geoReqs

(* --------------------------- initial state ---------------------------- *)
\* The state after the first render and its effects: the geolocation effect
\* has run once (lines 126-164); the two timer effects found nothing to do.
InitWith(ApiKeys) ==
    /\ userMode = "none"
    /\ destination = ""
    /\ driverStatus = "offline"
    /\ currentRideOffer = Null
    /\ passengerRideStatus = NoRide
    /\ apiResponse = NoMsg
    /\ isOnline \in BOOLEAN
    /\ geolocation \in BOOLEAN
    /\ pickupLocation = ""
    /\ loading = (geolocation /\ isOnline)
    /\ geoReqs = IF geolocation /\ isOnline THEN 1 ELSE 0
    /\ error = IF geolocation /\ isOnline THEN NoMsg
               ELSE IF ~isOnline THEN Msg("geo_offline", <<>>)
               ELSE Msg("geo_unsupported", <<>>)
    /\ currentLocation = IF geolocation /\ isOnline THEN ""
                         ELSE IF ~isOnline THEN "Manual Entry Needed (Offline)"
                         ELSE "Manual Entry Needed"
    /\ driverRequestIntervalRef = 0
    /\ rideTrackingIntervalRef = 0
    /\ pollTimers = {}
    /\ trackTimers = {}
    /\ findReqs = <<>>
    /\ pollReqs = 0
    /\ isChatOpen = FALSE
    /\ chatMessages = <<>>
    /\ chatInput = <<>>
    /\ chatRef = 0
    /\ chatSends = {}
    /\ chatSteps = 0
    /\ apiKey \in ApiKeys

\* the ride flows are checked with the key set: without it every request
\* throws, which the request outcomes cover
Init == InitWith({TRUE})

(* ------------------------------ effects ------------------------------- *)
\* window.clearInterval(id)
ClearInterval(timers, id) == {t \in timers : t.id # id}
\* the handle window.setInterval returns: one no live interval has
NewId(timers) == CHOOSE i \in 1 .. (Cardinality(timers) + 1) : \A t \in timers : t.id # i

\* One run of the driver polling effect for a render whose values are ds,
\* on, ld, offer: the cleanup of the previous run, then the body.  The
\* interval it creates closes over the render's values.
PollEffect(pt, ds, on, ld, offer) ==
    LET cleaned == IF pt.ref # 0 THEN ClearInterval(pt.timers, pt.ref) ELSE pt.timers
    IN  IF ds = "online" /\ pt.ref = 0
        THEN LET id == NewId(cleaned)
             IN  [ref |-> id,
                  timers |-> cleaned \cup {[id |-> id, driverStatus |-> ds, isOnline |-> on,
                                            loading |-> ld, offer |-> offer]}]
        ELSE IF ds # "online" /\ pt.ref # 0
        THEN [ref |-> 0, timers |-> ClearInterval(cleaned, pt.ref)]
        ELSE [ref |-> pt.ref, timers |-> cleaned]

\* let eta = currentRideOffer?.etaMinutes || 5
InitialEta(offer) ==
    IF Has(offer, "etaMinutes") /\ offer.etaMinutes # 0 THEN offer.etaMinutes ELSE DefaultEta

\* a wrong variant of TrackEffect, to test the properties against: the previous run's
\* cleanup is missing
TrackEffectNoCleanup(tt, prs, offer) ==
    IF prs = "tracking"
    THEN LET id == NewId(tt.timers)
         IN  [ref |-> id,
              timers |-> tt.timers \cup {[id |-> id, eta |-> InitialEta(offer), offer |-> offer]}]
    ELSE IF tt.ref # 0
    THEN [ref |-> 0, timers |-> ClearInterval(tt.timers, tt.ref)]
    ELSE [ref |-> tt.ref, timers |-> tt.timers]

\* One run of the ride tracking effect: cleanup of the previous run, then the body.
TrackEffect(tt, prs, offer) ==
    LET cleaned == IF tt.ref # 0 THEN ClearInterval(tt.timers, tt.ref) ELSE tt.timers
    IN  IF prs = "tracking"
        THEN LET id == NewId(cleaned)
             IN  [ref |-> id,
                  timers |-> cleaned \cup {[id |-> id, eta |-> InitialEta(offer), offer |-> offer]}]
        ELSE IF tt.ref # 0
        THEN [ref |-> 0, timers |-> ClearInterval(cleaned, tt.ref)]
        ELSE [ref |-> tt.ref, timers |-> cleaned]

PollState == [ref |-> driverRequestIntervalRef, timers |-> pollTimers]
TrackState == [ref |-> rideTrackingIntervalRef, timers |-> trackTimers]

\* The effects of the render a batch of setters causes.  fresh: the batch
\* called setCurrentRideOffer with a new object (a dependency compares by
\* identity).  pt, tt: the timers as the callback itself left them.
RunEffects(fresh, pt, tt) ==
    LET offerChanged == fresh \/ currentRideOffer' # currentRideOffer
        pollChanged == \/ driverStatus' # driverStatus
                       \/ isOnline' # isOnline
                       \/ loading' # loading
                       \/ offerChanged
        trackChanged == passengerRideStatus' # passengerRideStatus \/ offerChanged
        p == IF pollChanged
             THEN PollEffect(pt, driverStatus', isOnline', loading', currentRideOffer')
             ELSE pt
        t == IF trackChanged
             THEN TrackEffect(tt, passengerRideStatus', currentRideOffer')
             ELSE tt
    IN  /\ driverRequestIntervalRef' = p.ref
        /\ pollTimers' = p.timers
        /\ rideTrackingIntervalRef' = t.ref
        /\ trackTimers' = t.timers

\* The render after the geolocation effect (dependency isOnline) has set
\* loading to ld: the polling effect ran in the first render because
\* isOnline changed, and runs again if loading changed.
RunEffectsOnConnectivity(on, ld) ==
    LET p1 == PollEffect(PollState, driverStatus, on, loading, currentRideOffer)
        p2 == IF ld # loading
              THEN PollEffect(p1, driverStatus, on, ld, currentRideOffer)
              ELSE p1
    IN  /\ driverRequestIntervalRef' = p2.ref
        /\ pollTimers' = p2.timers
        /\ UNCHANGED trackVars

(* ----------------------- connectivity and location -------------------- *)
\* window 'offline' event, then the geolocation effect's offline branch
handleOffline ==
    /\ isOnline
    /\ isOnline' = FALSE
    /\ error' = Msg("geo_offline", <<>>)
    /\ currentLocation' = "Manual Entry Needed (Offline)"
    /\ pickupLocation' = ""
    /\ loading' = FALSE
    /\ UNCHANGED <<userMode, destination, rideVars, apiResponse, reqVars>>
    /\ RunEffectsOnConnectivity(FALSE, FALSE)
    /\ UNCHANGED chatVars

\* window 'online' event, then the geolocation effect's lookup or its
\* unsupported branch
handleOnline ==
    /\ ~isOnline
    /\ isOnline' = TRUE
    /\ IF geolocation
       THEN /\ InFlight < MaxInFlight
            /\ geoReqs' = geoReqs + 1
            /\ loading' = TRUE
            /\ UNCHANGED <<error, currentLocation, pickupLocation>>
       ELSE /\ error' = Msg("geo_unsupported", <<>>)
            /\ currentLocation' = "Manual Entry Needed"
            /\ pickupLocation' = ""
            /\ loading' = FALSE
            /\ UNCHANGED geoReqs
    /\ UNCHANGED <<userMode, destination, rideVars, apiResponse, findReqs, pollReqs, geolocation>>
    /\ RunEffectsOnConnectivity(TRUE, loading')
    /\ UNCHANGED chatVars

\* getCurrentPosition's success callback
GeoSuccess ==
    /\ geoReqs > 0
    /\ geoReqs' = geoReqs - 1
    /\ currentLocation' = ApproxLocation
    /\ pickupLocation' = ApproxLocation
    /\ error' = NoMsg
    /\ loading' = FALSE
    /\ UNCHANGED <<userMode, destination, rideVars, apiResponse, isOnline, findReqs, pollReqs, geolocation>>
    /\ RunEffects(FALSE, PollState, TrackState)
    /\ UNCHANGED chatVars

\* getCurrentPosition's error callback
GeoError ==
    /\ geoReqs > 0
    /\ geoReqs' = geoReqs - 1
    /\ error' = Msg("geo_denied", <<>>)
    /\ loading' = FALSE
    /\ currentLocation' = "Manual Entry Needed"
    /\ pickupLocation' = ""
    /\ UNCHANGED <<userMode, destination, rideVars, apiResponse, isOnline, findReqs, pollReqs, geolocation>>
    /\ RunEffects(FALSE, PollState, TrackState)
    /\ UNCHANGED chatVars

(* ------------------------------ passenger ----------------------------- *)
\* the role-selection buttons (lines 524-538)
SelectMode(mode) ==
    /\ userMode = "none"
    /\ ~loading /\ isOnline
    /\ userMode' = mode
    /\ UNCHANGED <<currentLocation, pickupLocation, destination, rideVars, uiVars,
                   pollVars, trackVars, reqVars>>
    /\ UNCHANGED chatVars

\* the passenger form is rendered (line 553) and its inputs are enabled
PassengerFormShown ==
    /\ userMode = "passenger"
    /\ passengerRideStatus \notin {"tracking", "completed"}

EditPickup(v) ==
    /\ PassengerFormShown
    /\ ~loading /\ isOnline
    /\ v # pickupLocation
    /\ pickupLocation' = v
    /\ UNCHANGED <<userMode, currentLocation, destination, rideVars, uiVars,
                   pollVars, trackVars, reqVars>>
    /\ UNCHANGED chatVars

EditDestination(v) ==
    /\ PassengerFormShown
    /\ ~loading /\ isOnline
    /\ v # destination
    /\ destination' = v
    /\ UNCHANGED <<userMode, currentLocation, pickupLocation, rideVars, uiVars,
                   pollVars, trackVars, reqVars>>
    /\ UNCHANGED chatVars

\* a wrong variant of handleFindRide, to test the properties against: the connectivity guard is
\* missing
handleFindRideNoOnlineGuard ==
    IF pickupLocation = "" \/ destination = ""
    THEN /\ error' = Msg("find_missing_input", <<>>)
         /\ UNCHANGED <<formVars, rideVars, apiResponse, loading, isOnline,
                        pollVars, trackVars, reqVars>>
    ELSE /\ InFlight < MaxInFlight
         /\ loading' = TRUE
         /\ apiResponse' = NoMsg
         /\ error' = NoMsg
         /\ currentRideOffer' = Null
         /\ passengerRideStatus' = "searching"
         /\ findReqs' = Append(findReqs, [pickup |-> pickupLocation,
                                          destination |-> destination])
         /\ UNCHANGED <<formVars, driverStatus, isOnline, pollReqs, geoReqs, geolocation>>
         /\ RunEffects(FALSE, PollState, TrackState)

\* handleFindRide up to its await: the guards, the setters, the request
handleFindRide ==
    IF pickupLocation = "" \/ destination = ""
    THEN /\ error' = Msg("find_missing_input", <<>>)
         /\ UNCHANGED <<formVars, rideVars, apiResponse, loading, isOnline,
                        pollVars, trackVars, reqVars>>
    ELSE IF ~isOnline
    THEN /\ error' = Msg("find_offline", <<>>)
         /\ UNCHANGED <<formVars, rideVars, apiResponse, loading, isOnline,
                        pollVars, trackVars, reqVars>>
    ELSE /\ InFlight < MaxInFlight
         /\ loading' = TRUE
         /\ apiResponse' = NoMsg
         /\ error' = NoMsg
         /\ currentRideOffer' = Null
         /\ passengerRideStatus' = "searching"
         /\ findReqs' = Append(findReqs, [pickup |-> pickupLocation,
                                          destination |-> destination])
         /\ UNCHANGED <<formVars, driverStatus, isOnline, pollReqs, geoReqs, geolocation>>
         /\ RunEffects(FALSE, PollState, TrackState)

\* the find-ride button (line 606)
FindRideButton ==
    /\ PassengerFormShown
    /\ ~(loading \/ ~isOnline \/ pickupLocation = "" \/ destination = "")
    /\ handleFindRide
    /\ UNCHANGED chatVars

\* a wrong variant of FoundOffer, to test the properties against: the spread comes last, so the response's own
\* pickup and destination win
FoundOfferDataWins(rideData, req) ==
    [f \in (DOMAIN rideData) \cup {"pickup", "destination"} |->
        IF f \in DOMAIN rideData THEN rideData[f] ELSE req[f]]
\* { ...rideData, pickup: pickupLocation, destination: destination }
FoundOffer(rideData, req) ==
    Spread(Spread(rideData, "pickup", req.pickup), "destination", req.destination)

\* the response parses and carries no message (lines 308-314): it is
\* taken for an offer
IsOffer(r) == r.kind = "object" /\ ~(Has(r.data, "message") /\ r.data.message # "")

RemoveAt(seq, i) == SubSeq(seq, 1, i - 1) \o SubSeq(seq, i + 1, Len(seq))

\* handleFindRide after its await, for the i-th request in flight and the
\* outcome r of the request (lines 306-334)
FindRideResponse(i, r) ==
    LET req == findReqs[i]
        isOffer == IsOffer(r)
    IN  /\ findReqs' = RemoveAt(findReqs, i)
        /\ loading' = FALSE
        /\ IF isOffer
           THEN /\ passengerRideStatus' = "found"
                /\ apiResponse' = Msg("ride_found", NumArg(r.data, "etaMinutes"))
                /\ currentRideOffer' = FoundOffer(r.data, req)
                /\ UNCHANGED error
           ELSE /\ passengerRideStatus' = NoRide
                /\ UNCHANGED currentRideOffer
                /\ IF r.kind = "error"
                   THEN error' = Msg("find_failed", <<>>) /\ UNCHANGED apiResponse
                   ELSE /\ apiResponse' = Msg(IF r.kind = "object" THEN "no_drivers"
                                              ELSE IF r.kind = "empty" THEN "find_no_response"
                                              ELSE "find_unparsed", <<>>)
                        /\ UNCHANGED error
        /\ UNCHANGED <<formVars, driverStatus, isOnline, pollReqs, geoReqs, geolocation>>
        /\ RunEffects(isOffer, PollState, TrackState)
        /\ UNCHANGED chatVars

handlePassengerAcceptRide ==
    IF currentRideOffer # Null
    THEN /\ passengerRideStatus' = "tracking"
         /\ apiResponse' = Msg("ride_accepted", <<>>)
         /\ UNCHANGED <<formVars, driverStatus, currentRideOffer, loading, error, isOnline, reqVars>>
         /\ RunEffects(FALSE, PollState, TrackState)
    ELSE UNCHANGED vars

\* a wrong variant of handlePassengerCancelRide, to test the properties against: it keeps the offer
handlePassengerCancelRideKeepsOffer ==
    /\ passengerRideStatus' = "canceled"
    /\ apiResponse' = Msg("ride_canceled", <<>>)
    /\ UNCHANGED <<formVars, driverStatus, currentRideOffer, loading, error, isOnline, reqVars>>
    /\ RunEffects(FALSE, PollState, TrackState)

handlePassengerCancelRide ==
    /\ passengerRideStatus' = "canceled"
    /\ currentRideOffer' = Null
    /\ apiResponse' = Msg("ride_canceled", <<>>)
    /\ UNCHANGED <<formVars, driverStatus, loading, error, isOnline, reqVars>>
    /\ RunEffects(FALSE, PollState, TrackState)

handlePassengerCompleteRide ==
    /\ passengerRideStatus' = "completed"
    /\ apiResponse' = Msg("ride_completed", <<>>)
    /\ currentRideOffer' = Null
    /\ UNCHANGED <<formVars, driverStatus, loading, error, isOnline, reqVars>>
    /\ RunEffects(FALSE, PollState, TrackState)

\* the ride-offer card (lines 616-631)
OfferCardShown ==
    /\ userMode = "passenger"
    /\ passengerRideStatus = "found"
    /\ currentRideOffer # Null

PassengerAcceptButton ==
    /\ OfferCardShown
    /\ ~(loading \/ ~isOnline)
    /\ handlePassengerAcceptRide
    /\ UNCHANGED chatVars

PassengerCancelButton ==
    /\ OfferCardShown
    /\ ~(loading \/ ~isOnline)
    /\ handlePassengerCancelRide
    /\ UNCHANGED chatVars

\* the tracking card (lines 634-652)
PassengerCompleteButton ==
    /\ userMode = "passenger"
    /\ passengerRideStatus = "tracking"
    /\ currentRideOffer # Null
    /\ isOnline
    /\ handlePassengerCompleteRide
    /\ UNCHANGED chatVars

\* a wrong variant of EtaRunning, to test the properties against: the test lets the counter pass zero
EtaRunningThroughZero(eta) == eta >= 0
\* if (eta > 0)
EtaRunning(eta) == eta > 0

\* One tick of a live tracking interval (lines 243-252).  Its eta is the
\* interval's own; clearInterval reads the ref as it is now.
TrackingTick(t) ==
    /\ t \in trackTimers
    /\ UNCHANGED <<formVars, loading, error, isOnline, reqVars>>
    /\ IF EtaRunning(t.eta)
       THEN /\ trackTimers' = (trackTimers \ {t}) \cup {[t EXCEPT !.eta = t.eta - 1]}
            /\ apiResponse' = Msg("driver_eta", <<t.eta - 1>>)
            /\ UNCHANGED <<rideVars, rideTrackingIntervalRef, pollVars>>
       ELSE /\ apiResponse' = Msg("driver_arrived", <<>>)
            /\ passengerRideStatus' = "completed"
            /\ UNCHANGED <<driverStatus, currentRideOffer>>
            /\ RunEffects(FALSE, PollState,
                          [ref |-> rideTrackingIntervalRef,
                           timers |-> ClearInterval(trackTimers, rideTrackingIntervalRef)])
    /\ UNCHANGED chatVars

(* -------------------------------- driver ------------------------------ *)
\* the guard of simulateDriverActivity (line 169), on what the interval t
\* closed over
TickWouldFetch(t) ==
    t.driverStatus = "online" /\ t.isOnline /\ ~t.loading /\ t.offer = Null

\* One tick of a live polling interval: simulateDriverActivity up to its
\* await (lines 168-183).  The guard reads what the interval closed over.
PollingTick(t) ==
    /\ t \in pollTimers
    /\ IF TickWouldFetch(t)
       THEN /\ InFlight < MaxInFlight
            /\ pollReqs' = pollReqs + 1
            /\ loading' = TRUE
            /\ error' = NoMsg
            /\ UNCHANGED <<formVars, rideVars, apiResponse, isOnline, findReqs, geoReqs, geolocation>>
            /\ RunEffects(FALSE, PollState, TrackState)
       ELSE UNCHANGED vars
    /\ UNCHANGED chatVars

\* { ...requestData, estimatedFare: requestData.fare }
RequestOffer(requestData) ==
    IF Has(requestData, "fare")
    THEN Spread(requestData, "estimatedFare", requestData.fare)
    ELSE requestData

\* simulateDriverActivity after its await, for the outcome r of the request
\* (lines 201-221).  The status text reads requestData.fare.toFixed, which
\* throws into the inner catch when the fare is missing, after the offer
\* and the status have been set.
PollingResponse(r) ==
    /\ pollReqs > 0
    /\ pollReqs' = pollReqs - 1
    /\ loading' = FALSE
    /\ IF r.kind = "object"
       THEN /\ currentRideOffer' = RequestOffer(r.data)
            /\ driverStatus' = "request_pending"
            /\ apiResponse' = IF Has(r.data, "fare")
                              THEN Msg("new_request", <<r.data.fare>>)
                              ELSE Msg("request_unparsed", <<>>)
            /\ UNCHANGED error
       ELSE /\ UNCHANGED <<currentRideOffer, driverStatus>>
            /\ IF r.kind = "error"
               THEN error' = Msg("request_failed", <<>>) /\ UNCHANGED apiResponse
               ELSE /\ apiResponse' = Msg(IF r.kind = "empty" THEN "no_request"
                                          ELSE "request_unparsed", <<>>)
                    /\ UNCHANGED error
    /\ UNCHANGED <<formVars, passengerRideStatus, isOnline, findReqs, geoReqs, geolocation>>
    /\ RunEffects(r.kind = "object", PollState, TrackState)
    /\ UNCHANGED chatVars

handleDriverToggleOnline ==
    IF ~isOnline
    THEN /\ error' = Msg("toggle_offline", <<>>)
         /\ UNCHANGED <<formVars, rideVars, apiResponse, loading, isOnline,
                        pollVars, trackVars, reqVars>>
    ELSE LET newStatus == IF driverStatus = "offline" THEN "online" ELSE "offline"
         IN  /\ driverStatus' = newStatus
             /\ apiResponse' = Msg(IF newStatus = "online" THEN "driver_online"
                                   ELSE "driver_offline", <<>>)
             /\ error' = NoMsg
             /\ loading' = FALSE
             /\ currentRideOffer' = Null
             /\ UNCHANGED <<formVars, passengerRideStatus, isOnline, reqVars>>
             /\ RunEffects(FALSE, PollState, TrackState)

\* a wrong variant of handleDriverAcceptRide, to test the properties against: the destination field is filled from
\* the offer's pickup
handleDriverAcceptRideWrongField ==
    IF currentRideOffer # Null
    THEN /\ driverStatus' = "on_ride"
         /\ apiResponse' = Msg("request_accepted", <<>>)
         /\ pickupLocation' = Get(currentRideOffer, "pickup")
         /\ destination' = Get(currentRideOffer, "pickup")
         /\ UNCHANGED <<userMode, currentLocation, currentRideOffer, passengerRideStatus,
                        loading, error, isOnline, reqVars>>
         /\ RunEffects(FALSE, PollState, TrackState)
    ELSE UNCHANGED vars

\* a wrong variant of handleDriverAcceptRide, to test the properties against: it clears the offer
handleDriverAcceptRideClearsOffer ==
    IF currentRideOffer # Null
    THEN /\ driverStatus' = "on_ride"
         /\ apiResponse' = Msg("request_accepted", <<>>)
         /\ pickupLocation' = Get(currentRideOffer, "pickup")
         /\ destination' = Get(currentRideOffer, "destination")
         /\ currentRideOffer' = Null
         /\ UNCHANGED <<userMode, currentLocation, passengerRideStatus,
                        loading, error, isOnline, reqVars>>
         /\ RunEffects(FALSE, PollState, TrackState)
    ELSE UNCHANGED vars

handleDriverAcceptRide ==
    IF currentRideOffer # Null
    THEN /\ driverStatus' = "on_ride"
         /\ apiResponse' = Msg("request_accepted", <<>>)
         /\ pickupLocation' = Get(currentRideOffer, "pickup")
         /\ destination' = Get(currentRideOffer, "destination")
         /\ UNCHANGED <<userMode, currentLocation, currentRideOffer, passengerRideStatus,
                        loading, error, isOnline, reqVars>>
         /\ RunEffects(FALSE, PollState, TrackState)
    ELSE UNCHANGED vars

handleDriverDeclineRide ==
    /\ driverStatus' = "online"
    /\ apiResponse' = Msg("request_declined", <<>>)
    /\ currentRideOffer' = Null
    /\ UNCHANGED <<formVars, passengerRideStatus, loading, error, isOnline, reqVars>>
    /\ RunEffects(FALSE, PollState, TrackState)

\* a wrong variant of handleDriverCompleteRide, to test the properties against: the
\* status text is built from the offer after it was cleared
handleDriverCompleteRideReadsCleared ==
    /\ driverStatus' = "ride_completed"
    /\ apiResponse' = Msg("earned", NumArg(Null, "estimatedFare"))
    /\ currentRideOffer' = Null
    /\ UNCHANGED <<formVars, passengerRideStatus, loading, error, isOnline, reqVars>>
    /\ RunEffects(FALSE, PollState, TrackState)

handleDriverCompleteRide ==
    /\ driverStatus' = "ride_completed"
    /\ apiResponse' = Msg("earned", NumArg(currentRideOffer, "estimatedFare"))
    /\ currentRideOffer' = Null
    /\ UNCHANGED <<formVars, passengerRideStatus, loading, error, isOnline, reqVars>>
    /\ RunEffects(FALSE, PollState, TrackState)

\* the switch of the driver dashboard (lines 674-684)
DriverToggleButton ==
    /\ userMode = "driver"
    /\ ~(loading \/ ~isOnline)
    /\ handleDriverToggleOnline
    /\ UNCHANGED chatVars

\* the ride-request card (lines 696-712)
RequestCardShown ==
    /\ userMode = "driver"
    /\ currentRideOffer # Null
    /\ driverStatus = "request_pending"

DriverAcceptButton ==
    /\ RequestCardShown
    /\ ~(loading \/ ~isOnline)
    /\ handleDriverAcceptRide
    /\ UNCHANGED chatVars

DriverDeclineButton ==
    /\ RequestCardShown
    /\ ~(loading \/ ~isOnline)
    /\ handleDriverDeclineRide
    /\ UNCHANGED chatVars

\* the on-ride card (lines 714-725)
DriverCompleteButton ==
    /\ userMode = "driver"
    /\ driverStatus = "on_ride"
    /\ currentRideOffer # Null
    /\ isOnline
    /\ handleDriverCompleteRide
    /\ UNCHANGED chatVars

\* the 'go online again' button of the ride-completed card (lines 727-737)
GoOnlineAgainButton ==
    /\ userMode = "driver"
    /\ driverStatus = "ride_completed"
    /\ isOnline
    /\ driverStatus' = "online"
    /\ UNCHANGED <<formVars, currentRideOffer, passengerRideStatus, uiVars, reqVars>>
    /\ RunEffects(FALSE, PollState, TrackState)
    /\ UNCHANGED chatVars

(* -------------------------------- reset ------------------------------- *)
\* a wrong variant of resetAppState, to test the properties against: the offer is kept
resetAppStateKeepsOffer ==
    /\ userMode' = "none"
    /\ pickupLocation' = currentLocation
    /\ destination' = ""
    /\ driverStatus' = "offline"
    /\ passengerRideStatus' = NoRide
    /\ apiResponse' = NoMsg
    /\ error' = NoMsg
    /\ loading' = FALSE
    /\ UNCHANGED <<currentLocation, currentRideOffer, isOnline, reqVars>>
    /\ RunEffects(FALSE,
                  [ref |-> 0, timers |-> ClearInterval(pollTimers, driverRequestIntervalRef)],
                  [ref |-> 0, timers |-> ClearInterval(trackTimers, rideTrackingIntervalRef)])

\* resetAppState clears both intervals itself; the effects of the render it
\* causes run afterwards.
resetAppState ==
    /\ userMode' = "none"
    /\ pickupLocation' = currentLocation
    /\ destination' = ""
    /\ driverStatus' = "offline"
    /\ passengerRideStatus' = NoRide
    /\ currentRideOffer' = Null
    /\ apiResponse' = NoMsg
    /\ error' = NoMsg
    /\ loading' = FALSE
    /\ UNCHANGED <<currentLocation, isOnline, reqVars>>
    /\ RunEffects(FALSE,
                  [ref |-> 0, timers |-> ClearInterval(pollTimers, driverRequestIntervalRef)],
                  [ref |-> 0, timers |-> ClearInterval(trackTimers, rideTrackingIntervalRef)])

\* the three places that render a reset button: the passenger form (line
\* 609), the completed card (line 662), the driver dashboard (line 685)
ResetButton ==
    /\ \/ PassengerFormShown
       \/ userMode = "passenger" /\ passengerRideStatus = "completed" /\ isOnline
       \/ userMode = "driver" /\ ~loading
    /\ resetAppState
    /\ UNCHANGED chatVars

(* --------------------------- specification ---------------------------- *)
Next ==
    \/ handleOffline
    \/ handleOnline
    \/ GeoSuccess
    \/ GeoError
    \/ \E mode \in {"passenger", "driver"} : SelectMode(mode)
    \/ \E v \in PickupInputs : EditPickup(v)
    \/ \E v \in DestinationInputs : EditDestination(v)
    \/ FindRideButton
    \/ \E i \in 1 .. Len(findReqs) : \E r \in FindRideOutcomes : FindRideResponse(i, r)
    \/ PassengerAcceptButton
    \/ PassengerCancelButton
    \/ PassengerCompleteButton
    \/ \E t \in trackTimers : TrackingTick(t)
    \/ \E t \in pollTimers : PollingTick(t)
    \/ \E r \in DriverRequestOutcomes : PollingResponse(r)
    \/ DriverToggleButton
    \/ DriverAcceptButton
    \/ DriverDeclineButton
    \/ DriverCompleteButton
    \/ GoOnlineAgainButton
    \/ ResetButton

Spec == Init /\ [][Next]_vars

(* -------------------------------- chat -------------------------------- *)
\* Texts are sequences of characters, so that concatenating fragments and
\* trimming are what they are in the code.  The fixed texts are one token.
Greeting == <<"greeting">>
SorryInit == <<"sorry_init">>
SorryError == <<"sorry_error">>
Dots == <<".", ".", ".">>

\* ChatMessage (lines 35-38); pending stands for a text that is no string
\* but the <LoadingSpinner/> element
UserTurn(text) == [sender |-> "user", pending |-> FALSE, text |-> text]
AiTurn(text) == [sender |-> "ai", pending |-> FALSE, text |-> text]
Placeholder == [sender |-> "ai", pending |-> TRUE, text |-> <<>>]

\* String.prototype.trim
RECURSIVE TrimStart(_)
TrimStart(text) ==
    IF text # <<>> /\ Head(text) = " " THEN TrimStart(Tail(text)) ELSE text
RECURSIVE TrimEnd(_)
TrimEnd(text) ==
    IF text # <<>> /\ text[Len(text)] = " "
    THEN TrimEnd(SubSeq(text, 1, Len(text) - 1)) ELSE text
Trim(text) == TrimEnd(TrimStart(text))

\* what the user types into the chat input
ChatInputs == {<<" ">>, <<"h">>}
\* c.text of one chunk of a stream
Fragments == {<<>>, <<"a">>, Dots}

\* a wrong variant of initializeChat, to test the properties against: the session is
\* created whether or not one exists
initializeChatAlwaysCreates(msgs, err) ==
    IF ~apiKey
    THEN [ref |-> chatRef, messages |-> msgs, error |-> Msg("chat_no_key", <<>>)]
    ELSE IF ~isOnline
    THEN [ref |-> chatRef, messages |-> msgs, error |-> Msg("chat_offline", <<>>)]
    ELSE [ref |-> 1, messages |-> <<AiTurn(Greeting)>>, error |-> err]

\* initializeChat (lines 391-410), called with msgs and err being the turn
\* sequence and the error as the caller's setters left them: the session
\* handle, the turn sequence and the error after the call.  A plain
\* setChatMessages([...]) replaces whatever was queued before it.
initializeChat(msgs, err) ==
    IF ~apiKey
    THEN [ref |-> chatRef, messages |-> msgs, error |-> Msg("chat_no_key", <<>>)]
    ELSE IF ~isOnline
    THEN [ref |-> chatRef, messages |-> msgs, error |-> Msg("chat_offline", <<>>)]
    ELSE IF chatRef = 0
    THEN [ref |-> 1, messages |-> <<AiTurn(Greeting)>>, error |-> err]
    ELSE [ref |-> chatRef, messages |-> msgs, error |-> err]

rideState == <<formVars, rideVars, apiResponse, loading, isOnline, pollVars, trackVars, reqVars>>

\* handleToggleChat (lines 472-477); both chat buttons (lines 756, 762) are
\* always enabled
handleToggleChat ==
    LET init == IF ~isChatOpen /\ chatRef = 0
                THEN initializeChat(chatMessages, error)
                ELSE [ref |-> chatRef, messages |-> chatMessages, error |-> error]
    IN  /\ isChatOpen' = ~isChatOpen
        /\ chatRef' = init.ref
        /\ chatMessages' = init.messages
        /\ error' = init.error
        /\ UNCHANGED <<rideState, chatInput, apiKey, chatSends, chatSteps>>

\* the chat input (lines 773-780), enabled while online; the chat window is
\* on screen while open
EditChatInput(v) ==
    /\ isChatOpen
    /\ isOnline
    /\ v # chatInput
    /\ chatInput' = v
    /\ UNCHANGED <<rideState, error, isChatOpen, chatMessages, chatRef, apiKey,
                   chatSends, chatSteps>>

\* a chat send that awaits sendMessageStream: its accumulator and (once the
\* stream is open) the place where its placeholder was appended
NewSend(id) == [id |-> id, phase |-> "dispatch", text |-> <<>>, at |-> 0]

\* a wrong variant of handleSendChatMessage, to test the properties against: the connectivity
\* guard is missing
handleSendChatMessageNoOnlineGuard ==
    IF Trim(chatInput) = <<>>
    THEN UNCHANGED vars
    ELSE LET appended == Append(chatMessages, UserTurn(chatInput))
             init == IF chatRef = 0
                     THEN initializeChat(appended, NoMsg)
                     ELSE [ref |-> chatRef, messages |-> appended, error |-> NoMsg]
         IN  /\ chatSteps < MaxChatSteps
             /\ chatSteps' = chatSteps + 1
             /\ chatInput' = <<>>
             /\ error' = init.error
             /\ chatRef' = init.ref
             /\ IF init.ref = 0
                THEN /\ chatMessages' = Append(init.messages, AiTurn(SorryInit))
                     /\ UNCHANGED chatSends
                ELSE /\ chatMessages' = init.messages
                     /\ chatSends' = chatSends \cup {NewSend(chatSteps + 1)}
             /\ UNCHANGED <<rideState, isChatOpen, apiKey>>

\* a wrong variant of handleSendChatMessage, to test the properties against: the session
\* handle is not looked at again after initializeChat
handleSendChatMessageNoRecheck ==
    IF Trim(chatInput) = <<>>
    THEN UNCHANGED vars
    ELSE IF ~isOnline
    THEN /\ error' = Msg("chat_send_offline", <<>>)
         /\ UNCHANGED <<rideState, chatVars>>
    ELSE LET appended == Append(chatMessages, UserTurn(chatInput))
             init == IF chatRef = 0
                     THEN initializeChat(appended, NoMsg)
                     ELSE [ref |-> chatRef, messages |-> appended, error |-> NoMsg]
         IN  /\ chatSteps < MaxChatSteps
             /\ chatSteps' = chatSteps + 1
             /\ chatInput' = <<>>
             /\ error' = init.error
             /\ chatRef' = init.ref
             /\ chatMessages' = init.messages
             /\ chatSends' = chatSends \cup {NewSend(chatSteps + 1)}
             /\ UNCHANGED <<rideState, isChatOpen, apiKey>>

\* handleSendChatMessage up to the await of sendMessageStream (lines
\* 412-434).  initializeChat awaits nothing, so the handler runs through to
\* that await, or to its return, in one go.
handleSendChatMessage ==
    IF Trim(chatInput) = <<>>
    THEN UNCHANGED vars
    ELSE IF ~isOnline
    THEN /\ error' = Msg("chat_send_offline", <<>>)
         /\ UNCHANGED <<rideState, chatVars>>
    ELSE LET appended == Append(chatMessages, UserTurn(chatInput))
             init == IF chatRef = 0
                     THEN initializeChat(appended, NoMsg)
                     ELSE [ref |-> chatRef, messages |-> appended, error |-> NoMsg]
         IN  /\ chatSteps < MaxChatSteps
             /\ chatSteps' = chatSteps + 1
             /\ chatInput' = <<>>
             /\ error' = init.error
             /\ chatRef' = init.ref
             /\ IF init.ref = 0
                THEN /\ chatMessages' = Append(init.messages, AiTurn(SorryInit))
                     /\ UNCHANGED chatSends
                ELSE /\ chatMessages' = init.messages
                     /\ chatSends' = chatSends \cup {NewSend(chatSteps + 1)}
             /\ UNCHANGED <<rideState, isChatOpen, apiKey>>

\* The chat form's submit event (line 771) as the handler receives it.  The
\* markup disables the button while offline or while the input is blank
\* (line 781); the handler's own guards decide here.
ChatSubmit ==
    /\ isChatOpen
    /\ handleSendChatMessage

\* sendMessageStream resolved: the placeholder is appended (line 436)
StreamOpens(s) ==
    /\ s \in chatSends
    /\ s.phase = "dispatch"
    /\ chatMessages' = Append(chatMessages, Placeholder)
    /\ chatSends' = (chatSends \ {s})
                        \cup {[s EXCEPT !.phase = "stream", !.at = Len(chatMessages) + 1]}
    /\ UNCHANGED <<rideState, error, isChatOpen, chatInput, chatRef, apiKey, chatSteps>>

\* the update a chunk with text makes to the turn sequence (lines 442-453)
MergeChunk(msgs, text) ==
    LET n == Len(msgs)
    IN  IF n > 0 /\ msgs[n].pending THEN [msgs EXCEPT ![n] = AiTurn(text)]
        ELSE IF n > 0 /\ msgs[n].sender = "ai" THEN [msgs EXCEPT ![n] = AiTurn(text)]
        ELSE Append(msgs, AiTurn(text))

\* one chunk of the stream of send s, f being its text (lines 438-455)
StreamChunk(s, f) ==
    /\ s \in chatSends
    /\ s.phase = "stream"
    /\ chatSteps < MaxChatSteps
    /\ chatSteps' = chatSteps + 1
    /\ LET text == s.text \o f
       IN  /\ chatSends' = (chatSends \ {s})
                               \cup {[s EXCEPT !.text = text]}
           /\ chatMessages' = IF f # <<>> THEN MergeChunk(chatMessages, text)
                              ELSE chatMessages
    /\ UNCHANGED <<rideState, error, isChatOpen, chatInput, chatRef, apiKey>>

\* the stream of send s is exhausted: the handler returns
StreamEnd(s) ==
    /\ s \in chatSends
    /\ s.phase = "stream"
    /\ chatSends' = chatSends \ {s}
    /\ UNCHANGED <<rideState, error, isChatOpen, chatMessages, chatInput, chatRef,
                   apiKey, chatSteps>>

\* the update the catch block makes to the turn sequence (lines 459-468)
FailureUpdate(msgs) ==
    LET n == Len(msgs)
    IN  IF n > 0 /\ msgs[n].sender = "ai" /\ (msgs[n].pending \/ msgs[n].text = Dots)
        THEN [msgs EXCEPT ![n] = AiTurn(SorryError)]
        ELSE Append(msgs, AiTurn(SorryError))

\* sendMessageStream rejects, or the stream throws: the catch block (lines
\* 456-469)
ChatStreamFails(s) ==
    /\ s \in chatSends
    /\ error' = Msg("chat_failed", <<>>)
    /\ chatMessages' = FailureUpdate(chatMessages)
    /\ chatSends' = chatSends \ {s}
    /\ UNCHANGED <<rideState, isChatOpen, chatInput, chatRef, apiKey, chatSteps>>

\* The chat handlers as they are called, in a browser without
\* navigator.geolocation (the position lookup touches nothing the chat
\* reads), with and without the key.  Without the key the component renders
\* the notice of lines 500-507 instead of the chat window, so there the
\* handlers are exercised for what their own code does.
ChatInit == InitWith(BOOLEAN) /\ ~geolocation

ChatNext ==
    \/ handleOffline
    \/ handleOnline
    \/ handleToggleChat
    \/ \E v \in ChatInputs : EditChatInput(v)
    \/ ChatSubmit
    \/ \E s \in chatSends : StreamOpens(s)
    \/ \E s \in chatSends : \E f \in Fragments : StreamChunk(s, f)
    \/ \E s \in chatSends : StreamEnd(s)
    \/ \E s \in chatSends : ChatStreamFails(s)

ChatSpec == ChatInit /\ [][ChatNext]_vars

(* ------------------------- reset and the chat ------------------------- *)
\* The ride flows together with the chat button, in a browser without
\* navigator.geolocation: the reset button is pressed with a chat session
\* and its greeting present or absent.
ResetInit == Init /\ ~geolocation

ResetNext ==
    \/ handleOffline
    \/ handleOnline
    \/ \E mode \in {"passenger", "driver"} : SelectMode(mode)
    \/ \E v \in PickupInputs : EditPickup(v)
    \/ \E v \in DestinationInputs : EditDestination(v)
    \/ FindRideButton
    \/ \E i \in 1 .. Len(findReqs) : \E r \in FindRideOutcomes : FindRideResponse(i, r)
    \/ PassengerAcceptButton
    \/ PassengerCancelButton
    \/ PassengerCompleteButton
    \/ \E t \in trackTimers : TrackingTick(t)
    \/ \E t \in pollTimers : PollingTick(t)
    \/ \E r \in DriverRequestOutcomes : PollingResponse(r)
    \/ DriverToggleButton
    \/ DriverAcceptButton
    \/ DriverDeclineButton
    \/ DriverCompleteButton
    \/ GoOnlineAgainButton
    \/ ResetButton
    \/ handleToggleChat

ResetSpec == ResetInit /\ [][ResetNext]_vars

(* ---------------------- the passenger's intents ----------------------- *)
\* The find-ride flow with the intents as the handlers receive them, enabled
\* or not in the markup: the handlers' own guards decide.
EditPickupIntent(v) ==
    /\ userMode = "passenger"
    /\ v # pickupLocation
    /\ pickupLocation' = v
    /\ UNCHANGED <<userMode, currentLocation, destination, rideVars, uiVars,
                   pollVars, trackVars, reqVars>>
    /\ UNCHANGED chatVars

EditDestinationIntent(v) ==
    /\ userMode = "passenger"
    /\ v # destination
    /\ destination' = v
    /\ UNCHANGED <<userMode, currentLocation, pickupLocation, rideVars, uiVars,
                   pollVars, trackVars, reqVars>>
    /\ UNCHANGED chatVars

FindRideIntent ==
    /\ userMode = "passenger"
    /\ handleFindRide
    /\ UNCHANGED chatVars

FindRideNext ==
    \/ handleOffline
    \/ handleOnline
    \/ GeoSuccess
    \/ GeoError
    \/ SelectMode("passenger")
    \/ \E v \in PickupInputs \cup {""} : EditPickupIntent(v)
    \/ \E v \in DestinationInputs \cup {""} : EditDestinationIntent(v)
    \/ FindRideIntent
    \/ \E i \in 1 .. Len(findReqs) : \E r \in FindRideOutcomes : FindRideResponse(i, r)

FindRideSpec == Init /\ [][FindRideNext]_vars

(* ------------------------------- claims ------------------------------- *)
\* C1: a find-ride intent issued while online sets the passenger status to
\* searching, and when its request returns a well-formed offer record the
\* status becomes found with a non-null offer whose pickup and destination
\* are the ones submitted with that intent.
C1_FindRideFound ==
    [][/\ FindRideButton => passengerRideStatus' = "searching"
       /\ Len(findReqs') < Len(findReqs) =>
            \A i \in 1 .. Len(findReqs) : \A r \in FindRideOutcomes :
                IsOffer(r) =>
                    \/ /\ passengerRideStatus' = "found"
                       /\ currentRideOffer' # Null
                       /\ Get(currentRideOffer', "pickup") = findReqs[i].pickup
                       /\ Get(currentRideOffer', "destination") = findReqs[i].destination
                    \/ ~FindRideResponse(i, r)]_vars

\* a ride was found for a request whose pickup the form no longer shows
C1_Witness ==
    /\ passengerRideStatus = "found"
    /\ apiResponse.kind = "ride_found"
    /\ currentRideOffer # Null
    /\ currentRideOffer.destination = "Gulshan 1"
    /\ currentRideOffer.pickup # pickupLocation

\* C2 (as claimed): every non-success outcome of a find-ride request ends
\* with the passenger status absent, a message or an error set, and no live
\* offer.
C2_FailureLeavesNoOffer ==
    [][\A i \in 1 .. Len(findReqs) : \A r \in FindRideOutcomes :
          (~IsOffer(r) /\ FindRideResponse(i, r)) =>
              /\ passengerRideStatus' = NoRide
              /\ (apiResponse'.kind # "" \/ error'.kind # "")
              /\ currentRideOffer' = Null]_vars

\* C3 (as claimed): the toggle that takes the driver offline leaves the
\* status offline with no live offer and no live polling interval, and from
\* the state the toggle leaves (its status text still shown) no step makes
\* an offer live or issues a polling fetch.
C3_OfflineStaysQuiet ==
    [][/\ (DriverToggleButton /\ driverStatus # "offline") =>
              /\ driverStatus' = "offline"
              /\ currentRideOffer' = Null
              /\ pollTimers' = {}
       /\ (/\ userMode = "driver"
           /\ driverStatus = "offline"
           /\ apiResponse.kind = "driver_offline"
           /\ currentRideOffer = Null) =>
              /\ currentRideOffer' = Null
              /\ pollReqs' <= pollReqs]_vars

\* C4 (as claimed): a polling fetch is issued only while no polling fetch is
\* outstanding and no offer is live.
C4_OnePollingFetch ==
    [][pollReqs' > pollReqs => (pollReqs = 0 /\ currentRideOffer = Null)]_vars

\* C5 (as claimed): after a polling fetch has ended without an offer, while
\* the driver is online with no live offer, nothing in flight and
\* connectivity up, a polling interval is live whose tick issues a fetch.
C5_PollingKeepsGoing ==
    (/\ userMode = "driver"
     /\ driverStatus = "online"
     /\ currentRideOffer = Null
     /\ isOnline /\ ~loading
     /\ pollReqs = 0 /\ findReqs = <<>> /\ geoReqs = 0
     /\ \/ apiResponse.kind \in {"no_request", "request_unparsed"}
        \/ error.kind = "request_failed")
        => \E t \in pollTimers : TickWouldFetch(t)

\* C6 (as claimed): request_pending implies that a ride offer is present.
C6_PendingHasOffer ==
    driverStatus = "request_pending" => currentRideOffer # Null

\* C7 (as claimed): in driver mode with the driver offline no ride offer is
\* present.
C7_OfflineDriverHasNoOffer ==
    (userMode = "driver" /\ driverStatus = "offline") => currentRideOffer = Null

\* C8: the eta of a tracking interval that started at a positive N is never
\* negative, and a tick leaves it unchanged or lowers it by exactly one.
C8_Countdown ==
    /\ [](\A t \in trackTimers :
            InitialEta(t.offer) > 0 => (t.eta >= 0 /\ t.eta <= InitialEta(t.offer)))
    /\ [][\A t \in trackTimers : TrackingTick(t) =>
            \A u \in trackTimers' :
                u.id = t.id => (u.eta = t.eta \/ u.eta = t.eta - 1)]_vars

\* a countdown that started at the default has been ticked down to zero
C8_Witness ==
    /\ passengerRideStatus = "tracking"
    /\ \E t \in trackTimers : InitialEta(t.offer) = DefaultEta /\ t.eta = 0

\* C9 (as claimed): the tick at which the counter becomes 0 sets the
\* passenger status to completed and stops the interval.
C9_CompletedAtZero ==
    [][\A t \in trackTimers : (TrackingTick(t) /\ t.eta = 1) =>
            (passengerRideStatus' = "completed" /\ trackTimers' = {})]_vars

\* C10: from request_pending with a live offer, decline sets the driver
\* status to online and clears the offer; accept sets it to on_ride and
\* copies the offer's pickup and destination into the trip fields.
C10_DeclineAccept ==
    [][/\ DriverDeclineButton => (driverStatus' = "online" /\ currentRideOffer' = Null)
       /\ DriverAcceptButton =>
            /\ driverStatus' = "on_ride"
            /\ pickupLocation' = Get(currentRideOffer, "pickup")
            /\ destination' = Get(currentRideOffer, "destination")]_vars

\* a request was accepted and the trip fields hold its pickup and destination
C10_Witness ==
    /\ userMode = "driver"
    /\ driverStatus = "on_ride"
    /\ apiResponse.kind = "request_accepted"
    /\ currentRideOffer # Null
    /\ pickupLocation = "Farmgate"
    /\ destination = "Motijheel"

C12_CancelReturnsToNone ==
    [][PassengerCancelButton =>
            (passengerRideStatus' = NoRide /\ currentRideOffer' = Null)]_vars

\* C12 (amended): cancel in status found sets the passenger status to
\* canceled, a status without active ride in which the search form is shown
\* again, and clears the offer.
C12_CancelSetsCanceled ==
    [][PassengerCancelButton =>
            /\ passengerRideStatus' = "canceled"
            /\ currentRideOffer' = Null
            /\ PassengerFormShown']_vars

\* a found ride was canceled
C12_Witness ==
    /\ userMode = "passenger"
    /\ passengerRideStatus = "canceled"
    /\ apiResponse.kind = "ride_canceled"
    /\ currentRideOffer = Null

\* C13 (as claimed): whenever the passenger status is completed no ride offer
\* is live, whether the ride was completed by the complete intent or by the
\* tracking countdown.
C13_CompletedHasNoOffer ==
    (userMode = "passenger" /\ passengerRideStatus = "completed") => currentRideOffer = Null

\* C14 (as claimed): a response that is no JSON, or a parsed record that
\* lacks a required field, leaves the offer, the passenger status and the
\* driver status as they were, on the passenger and on the driver side.
C14_UnparsedLeavesState ==
    [][/\ \A i \in 1 .. Len(findReqs) : \A r \in FindRideOutcomes :
            (/\ \/ r.kind = "garbage"
                \/ r.kind = "object" /\ ~Has(r.data, "message")
                                     /\ ~(FindRideFields \subseteq DOMAIN r.data)
             /\ FindRideResponse(i, r)) => UNCHANGED rideVars
       /\ \A r \in DriverRequestOutcomes :
            (/\ \/ r.kind = "garbage"
                \/ r.kind = "object" /\ ~(DriverRequestRequired \subseteq DOMAIN r.data)
             /\ PollingResponse(r)) => UNCHANGED rideVars]_vars

\* C15: a find-ride intent with an empty pickup, an empty destination or
\* with connectivity down sets an error message, issues no request, and
\* leaves the passenger status, the offer and the loading flag unchanged.
C15_FindRideRejected ==
    [][(FindRideIntent /\ (pickupLocation = "" \/ destination = "" \/ ~isOnline)) =>
            /\ error'.kind \in {"find_missing_input", "find_offline"}
            /\ findReqs' = findReqs
            /\ pollReqs' = pollReqs
            /\ UNCHANGED <<passengerRideStatus, currentRideOffer, loading>>]_vars

\* a find-ride intent with both fields filled was rejected for being offline
C15_Witness ==
    /\ userMode = "passenger"
    /\ ~isOnline
    /\ pickupLocation # ""
    /\ destination # ""
    /\ error.kind = "find_offline"

\* C16: a chat submit while connectivity is down, or with an empty or
\* whitespace-only input, leaves the turn sequence and the session handle
\* unchanged and starts no stream.
C16_ChatSendRejected ==
    [][(ChatSubmit /\ (~isOnline \/ Trim(chatInput) = <<>>)) =>
            /\ chatMessages' = chatMessages
            /\ chatRef' = chatRef
            /\ chatSends' = chatSends]_vars

\* a submit of a message with text was rejected for being offline
C16_Witness ==
    /\ isChatOpen
    /\ ~isOnline
    /\ Trim(chatInput) # <<>>
    /\ error.kind = "chat_send_offline"

\* C17 (as claimed): a stream that delivered at least one fragment with text
\* and ends normally leaves, in the place of the placeholder of its send,
\* one assistant turn whose text is the concatenation of its fragments in
\* arrival order, and no chunk makes the turn sequence longer.
C17_OneTurnPerStream ==
    [][\A s \in chatSends :
          /\ (StreamEnd(s) /\ s.text # <<>>) =>
                (s.at <= Len(chatMessages) /\ chatMessages[s.at] = AiTurn(s.text))
          /\ \A f \in Fragments :
                StreamChunk(s, f) => Len(chatMessages') = Len(chatMessages)]_vars

\* C18 (as claimed): a submit that is accepted appends the user turn behind
\* the turns that were there, also when it creates the session; and no
\* step removes a turn or changes one, except the last turn when it is an
\* assistant turn and a stream is in flight.
C18_TurnsAppendOnly ==
    [][/\ (ChatSubmit /\ isOnline /\ Trim(chatInput) # <<>>) =>
            /\ Len(chatMessages') > Len(chatMessages)
            /\ chatMessages'[Len(chatMessages) + 1] = UserTurn(chatInput)
       /\ Len(chatMessages') >= Len(chatMessages)
       /\ \A i \in 1 .. Len(chatMessages) :
            \/ i <= Len(chatMessages') /\ chatMessages'[i] = chatMessages[i]
            \/ /\ i = Len(chatMessages)
               /\ chatMessages[i].sender = "ai"
               /\ \E s \in chatSends : s.phase = "stream"]_vars

\* C19 (as claimed): when a chat stream fails, a last turn that is still the
\* pending placeholder is replaced by the failure turn, otherwise one
\* failure turn is appended; afterwards no turn is a pending placeholder.
C19_FailureReplacesOrAppends ==
    [][\A s \in chatSends : ChatStreamFails(s) =>
          LET n == Len(chatMessages)
          IN  /\ IF n > 0 /\ chatMessages[n].pending
                 THEN chatMessages' = [chatMessages EXCEPT ![n] = AiTurn(SorryError)]
                 ELSE chatMessages' = Append(chatMessages, AiTurn(SorryError))
              /\ \A i \in 1 .. Len(chatMessages') : ~chatMessages'[i].pending]_vars

C21_SessionCreatedOnce ==
    [][chatRef # 0 =>
            /\ initializeChat(chatMessages, error).ref = chatRef
            /\ initializeChat(chatMessages, error).messages = chatMessages
            /\ chatRef' = chatRef
            /\ Len(chatMessages') >= Len(chatMessages)
            /\ \A i \in 1 .. Len(chatMessages) - 1 : chatMessages'[i] = chatMessages[i]
            /\ chatMessages'[1] = AiTurn(Greeting)]_vars

\* the chat was closed again after the session was created and a message sent
C21_Witness ==
    /\ chatRef # 0
    /\ ~isChatOpen
    /\ Len(chatMessages) >= 2
    /\ chatMessages[1] = AiTurn(Greeting)

\* C22: in every reachable state at most one polling interval and at most
\* one countdown interval is live, and no countdown interval is live unless
\* the passenger status is tracking, so that no countdown tick can fire
\* after the status has left tracking by completion, cancel or reset.
C22_TimersSingleAndScoped ==
    /\ Cardinality(pollTimers) <= 1
    /\ Cardinality(trackTimers) <= 1
    /\ passengerRideStatus # "tracking" => trackTimers = {}

\* a countdown ran to its end and completed the ride, and its interval is gone
C22_Witness ==
    /\ passengerRideStatus = "completed"
    /\ apiResponse.kind = "driver_arrived"
    /\ trackTimers = {}

\* C23: the reset intent sets the mode to none, the driver status to
\* offline, the passenger status to absent and the offer to none, leaves no
\* polling and no countdown interval live, and leaves the chat session
\* handle and the chat turn sequence as they were.
C23_ResetKeepsChat ==
    [][ResetButton =>
            /\ userMode' = "none"
            /\ driverStatus' = "offline"
            /\ passengerRideStatus' = NoRide
            /\ currentRideOffer' = Null
            /\ pollTimers' = {} /\ driverRequestIntervalRef' = 0
            /\ trackTimers' = {} /\ rideTrackingIntervalRef' = 0
            /\ chatRef' = chatRef
            /\ chatMessages' = chatMessages]_vars

\* the state a reset leaves (no mode, no messages) with a chat session and
\* its greeting present
C23_Witness ==
    /\ userMode = "none"
    /\ error = NoMsg
    /\ apiResponse = NoMsg
    /\ chatRef # 0
    /\ chatMessages = <<AiTurn(Greeting)>>

\* C24 (as claimed): the 'go online again' intent in ride_completed sets the
\* driver status to online with no live offer, and polling is active
\* afterwards: as long as the driver is online with connectivity up, no
\* offer, nothing in flight and no fetch answered since, a polling interval
\* is live whose tick issues a fetch.
C24_GoOnlineAgainPolls ==
    [][/\ GoOnlineAgainButton => (driverStatus' = "online" /\ currentRideOffer' = Null)
       /\ (/\ userMode' = "driver"
           /\ driverStatus' = "online"
           /\ apiResponse'.kind = "earned"
           /\ error'.kind # "request_failed"
           /\ currentRideOffer' = Null
           /\ isOnline' /\ ~loading'
           /\ InFlight' = 0)
              => \E t \in pollTimers' : TickWouldFetch(t)]_vars

\* C25: the driver complete intent in on_ride sets the driver status to
\* ride_completed and clears the offer, and the status text it produces
\* carries the fare of the offer that was live when it was pressed.
C25_CompleteCarriesFare ==
    [][DriverCompleteButton =>
            /\ driverStatus' = "ride_completed"
            /\ currentRideOffer' = Null
            /\ apiResponse'.kind = "earned"
            /\ Has(currentRideOffer, "estimatedFare") =>
                    apiResponse'.arg = <<currentRideOffer.estimatedFare>>]_vars

\* a ride with a fare was completed by the driver
C25_Witness ==
    /\ userMode = "driver"
    /\ driverStatus = "ride_completed"
    /\ currentRideOffer = Null
    /\ apiResponse.kind = "earned"
    /\ apiResponse.arg # <<>>

\* C26 (as claimed): whenever the mode is none there is no live ride offer
\* and the passenger status is absent, also when a find-ride response
\* arrives after a reset that was pressed while searching.
C26_NoModeNoRide ==
    userMode = "none" => (currentRideOffer = Null /\ passengerRideStatus = NoRide)

\* C27 (as claimed): at most one find-ride request is in flight at any time.
C27_OneFindRideRequest ==
    Len(findReqs) <= 1

\* C28 (as claimed): when a chat stream ends normally, the placeholder of its
\* send is no longer pending, whatever fragments the stream delivered: none,
\* only fragments with empty text, or fragments with text.
C28_NoPlaceholderAfterStream ==
    [][\A s \in chatSends :
          StreamEnd(s) => (s.at <= Len(chatMessages') /\ ~chatMessages'[s.at].pending)]_vars

\* C29 (as claimed): while two sends overlap, a chunk of one stream changes
\* only the assistant turn of its own send and adds no turn, and a failure
\* of one send changes no turn but its own (it may append its failure turn).
C29_OverlappingSendsKeepApart ==
    [][\A s \in chatSends : (chatSends \ {s} # {}) =>
          /\ \A f \in Fragments : StreamChunk(s, f) =>
                /\ Len(chatMessages') = Len(chatMessages)
                /\ \A i \in 1 .. Len(chatMessages) :
                        i # s.at => chatMessages'[i] = chatMessages[i]
          /\ ChatStreamFails(s) =>
                \A i \in 1 .. Len(chatMessages) :
                        i # s.at => chatMessages'[i] = chatMessages[i]]_vars

====
